---- MODULE Spec2Model ----
(***************************************************************************)
(* Model of src/src/runtime.rs: the per-thread cooperative scheduler       *)
(* (RUNNABLE queue, drain loop), the Task wake protocol, the Rc-based      *)
(* Waker vtable, the reactor registry (POLLER.wait) and the Async<T> I/O   *)
(* resources.                                                              *)
(*                                                                         *)
(* A worker thread is a process with a program counter:                    *)
(*   "off"     thread not created (worker number above cpus)               *)
(*   "start"   thread created, before spawn(r)             (line 51)       *)
(*   "swap"    top of the inner loop, before ready.append  (lines 55-64)   *)
(*   "pop"     at `while let Some(t) = ready.pop_front()`  (line 66)       *)
(*   "polling" inside t.future.poll(): user code runs      (line 73)       *)
(*   "wait"    at p.poll.poll(&mut events, None)           (line 88)       *)
(*   "events"  inside `for e in events`                    (lines 89-93)   *)
(*   "panicked" the thread has unwound after a panic                       *)
(* Code run by a computation's poll (spawn, Waker operations, resource     *)
(* construction, I/O attempts, resource drop) is a step of the worker      *)
(* while it is at "polling".                                               *)
(***************************************************************************)
EXTENDS Integers, Sequences, FiniteSets, TLC

\* ---- bounds of the model ----
MaxTasks == 3       \* Tasks ever created (all workers together), at most
MaxKeys == 2        \* OS handles (file descriptors), hence readiness keys, at most
MaxClones == 1      \* Waker clones of one Task kept by user code at a time
MaxEvents == 2      \* events reported by one reactor wait, at most
MaxCpus == 2        \* worker threads the model has room for
FewTasks == 2       \* Tasks created in a run that uses MaxKeys handles
FewKeys == 1        \* handles in a run that creates MaxTasks Tasks or has MaxCpus workers
FewEvents == 1      \* events per wait in such a run

Tasks == 1..MaxTasks
Keys == 1..MaxKeys
Workers == 1..MaxCpus
NoTask == 0
NoKey == 0

\* enum State (lines 105-111); "None" is a Task id not yet allocated.
State == {"Ready", "Running", "Pending", "Done"}

VARIABLES
    cpus,        \* worker count read from RUSTMAXPROCS / num_cpus (lines 37-42)
    lim,         \* the run's environment: Tasks the computations create, handles
                 \* the OS hands out, events one wait reports (never changes)
    pc,          \* pc[w]: position of worker w's thread
    runnable,    \* runnable[w]: thread-local RUNNABLE (line 27), a sequence of Tasks
    ready,       \* ready[w]: the local snapshot `ready` being drained (line 56)
    cur,         \* cur[w]: the Task `t` being polled by w, or NoTask
    wait,        \* wait[w][k]: Poller.wait (line 16): Task of the stored Waker, or NoTask
    events,      \* events[w]: events of the current wait still to be processed
    registered,  \* registered[w][k]: "none" | "listener" | "stream" in w's mio::Poll
    state,       \* state[t]: Task.state (line 114), or "None"
    home,        \* home[t]: the worker whose thread created t
    refcount,    \* refcount[t]: strong count of the Rc<Task>
    clones,      \* clones[t]: Waker clones of t kept by user code
    nextTask,    \* next unused Task id
    last,        \* history: the operation that produced this state
    lastRec,     \* history: lastRec[w][k] = Task that most recently recorded a Waker under k
    prevRec,     \* history: prevRec[w][k] = another Task whose Waker the stored one replaced
    stale,       \* history: stale[w][k] = the stored Waker was recorded for a resource since dropped
    needs,       \* history: needs[t] = woken during its own poll, which then returned Pending
    reported     \* history: reported[w] = the events the wait in progress returned

vars == <<cpus, lim, pc, runnable, ready, cur, wait, events, registered, state, home,
          refcount, clones, nextTask, last, lastRec, prevRec, stale, needs, reported>>

\* ---- helpers ----
InSeq(x, s) == \E i \in 1..Len(s) : s[i] = x
Count(x, s) == Cardinality({i \in 1..Len(s) : s[i] = x})
\* History records: wake protocol runs (ret = the Task's state before),
\* I/O attempts (os = the OS outcome, ret = what poll returned), processed
\* events (os = "replaced" when the stored Waker had replaced another
\* Task's) and poll returns (os = "woken" when the state was no longer
\* Running) are recorded; every other operation leaves NoOp.  item is what
\* an I/O attempt handed to its caller, or "panic" for an event whose wake
\* ended in a panic; res is the resource whose Drop panicked.
Op(op, w, t, k, os, ret) ==
    [op |-> op, w |-> w, task |-> t, key |-> k, os |-> os, ret |-> ret,
     item |-> "-", res |-> NoKey]
NoOp == Op("-", 0, NoTask, NoKey, "-", "-")

\* The scheduler's view of memory that the wake protocol reads and writes.
Mem(w) == [state |-> state, runnable |-> runnable[w], refcount |-> refcount]

\* drop(Rc<Task>): one strong reference released (lines 382-384 and every
\* implicit drop of an Rc<Task> or Waker).
drop_waker(rc, t) == [rc EXCEPT ![t] = @ - 1]

\* Rc::clone through increase_refcount (lines 349-354) / Rc::clone (line 70, 124).
increase_refcount(rc, t) == [rc EXCEPT ![t] = @ + 1]

\* wake_by_ref whose Pending arm enqueues without storing Ready.
wake_by_ref_stay(m, t) ==
    CASE m.state[t] = "Pending" ->
            [m EXCEPT !.runnable = Append(m.runnable, t),
                      !.refcount = increase_refcount(m.refcount, t)]
      [] m.state[t] = "Running" ->
            [m EXCEPT !.state = [m.state EXCEPT ![t] = "Ready"]]
      [] OTHER -> m

\* wake_by_ref whose Running arm does nothing.
wake_by_ref_ignore(m, t) ==
    CASE m.state[t] = "Pending" ->
            [state |-> [m.state EXCEPT ![t] = "Ready"],
             runnable |-> Append(m.runnable, t),
             refcount |-> increase_refcount(m.refcount, t)]
      [] OTHER -> m

\* wake_by_ref with the Ready arm pushing a second queue entry.
wake_by_ref_dup(m, t) ==
    CASE m.state[t] \in {"Ready", "Pending"} ->
            [state |-> [m.state EXCEPT ![t] = "Ready"],
             runnable |-> Append(m.runnable, t),
             refcount |-> increase_refcount(m.refcount, t)]
      [] m.state[t] = "Running" ->
            [m EXCEPT !.state = [m.state EXCEPT ![t] = "Ready"]]
      [] OTHER -> m

\* wake_by_ref with the Done arm treated like Pending.
wake_by_ref_done(m, t) ==
    CASE m.state[t] = "Ready" -> m
      [] m.state[t] \in {"Pending", "Done"} ->
            [state |-> [m.state EXCEPT ![t] = "Ready"],
             runnable |-> Append(m.runnable, t),
             refcount |-> increase_refcount(m.refcount, t)]
      [] m.state[t] = "Running" ->
            [m EXCEPT !.state = [m.state EXCEPT ![t] = "Ready"]]
      [] OTHER -> m

\* wake_by_ref with the Ready arm resetting the state to Pending.
wake_by_ref_toggle(m, t) ==
    CASE m.state[t] = "Ready" ->
            [m EXCEPT !.state = [m.state EXCEPT ![t] = "Pending"]]
      [] m.state[t] = "Pending" ->
            [state |-> [m.state EXCEPT ![t] = "Ready"],
             runnable |-> Append(m.runnable, t),
             refcount |-> increase_refcount(m.refcount, t)]
      [] m.state[t] = "Running" ->
            [m EXCEPT !.state = [m.state EXCEPT ![t] = "Ready"]]
      [] OTHER -> m

\* wake_by_ref with the Running arm pushing like the Pending arm.
wake_by_ref_push(m, t) ==
    CASE m.state[t] = "Ready" -> m
      [] m.state[t] \in {"Pending", "Running"} ->
            [state |-> [m.state EXCEPT ![t] = "Ready"],
             runnable |-> Append(m.runnable, t),
             refcount |-> increase_refcount(m.refcount, t)]
      [] OTHER -> m

\* impl RcWake for Task :: wake_by_ref (lines 118-132), on worker thread w's
\* memory m = [state, runnable, refcount].
wake_by_ref(m, t) ==
    CASE m.state[t] = "Ready" -> m
      [] m.state[t] = "Pending" ->
            [state |-> [m.state EXCEPT ![t] = "Ready"],
             runnable |-> Append(m.runnable, t),
             refcount |-> increase_refcount(m.refcount, t)]
      [] m.state[t] = "Running" ->
            [m EXCEPT !.state = [m.state EXCEPT ![t] = "Ready"]]
      [] OTHER -> m

\* A wake by value that forgets the Rc it was handed.
wake_leak(m, t) == wake_by_ref(m, t)

\* RcWake::wake (lines 332-334) through Helper::wake (lines 372-375): the
\* protocol runs once, then the consumed Rc is dropped.
wake(m, t) ==
    LET m1 == wake_by_ref(m, t)
    IN  [m1 EXCEPT !.refcount = drop_waker(m1.refcount, t)]

\* Writes a memory m back to worker w.
Store(w, m) ==
    /\ state' = m.state
    /\ runnable' = [runnable EXCEPT ![w] = m.runnable]
    /\ refcount' = m.refcount

\* ---- initial state: run() has read `cpus`, threads are being created ----
InitCommon ==
    /\ pc = [w \in Workers |-> IF w <= cpus THEN "start" ELSE "off"]
    /\ runnable = [w \in Workers |-> <<>>]
    /\ ready = [w \in Workers |-> <<>>]
    /\ cur = [w \in Workers |-> NoTask]
    /\ wait = [w \in Workers |-> [k \in Keys |-> NoTask]]
    /\ events = [w \in Workers |-> <<>>]
    /\ registered = [w \in Workers |-> [k \in Keys |-> "none"]]
    /\ state = [t \in Tasks |-> "None"]
    /\ home = [t \in Tasks |-> 0]
    /\ refcount = [t \in Tasks |-> 0]
    /\ clones = [t \in Tasks |-> 0]
    /\ nextTask = 1
    /\ last = NoOp
    /\ lastRec = [w \in Workers |-> [k \in Keys |-> NoTask]]
    /\ prevRec = [w \in Workers |-> [k \in Keys |-> NoTask]]
    /\ stale = [w \in Workers |-> [k \in Keys |-> FALSE]]
    /\ needs = [t \in Tasks |-> FALSE]
    /\ reported = [w \in Workers |-> <<>>]

\* Environment of a run: how many Tasks its computations create, how many
\* handles the OS hands out and how many events one wait reports.
Limits(t, k, e) == [tasks |-> t, keys |-> k, events |-> e]

\* One worker (RUSTMAXPROCS=1).
Init == cpus = 1 /\ lim = Limits(FewTasks, MaxKeys, MaxEvents) /\ InitCommon

\* MaxCpus workers, each spawning its own server computation (lines 44-52).
InitMW == cpus = MaxCpus /\ lim = Limits(FewTasks, FewKeys, FewEvents) /\ InitCommon

\* One worker whose computations create up to MaxTasks Tasks.
InitFifo == cpus = 1 /\ lim = Limits(MaxTasks, FewKeys, FewEvents) /\ InitCommon

\* ---- spawn (lines 134-140), called on worker thread w ----
spawn(w) ==
    /\ nextTask <= lim.tasks
    /\ state' = [state EXCEPT ![nextTask] = "Ready"]
    /\ home' = [home EXCEPT ![nextTask] = w]
    /\ refcount' = [refcount EXCEPT ![nextTask] = 1]
    /\ runnable' = [runnable EXCEPT ![w] = Append(@, nextTask)]
    /\ last' = NoOp
    /\ nextTask' = nextTask + 1

\* Thread body start: spawn(r) (line 51), then the loop is entered.
ThreadStart(w) ==
    /\ pc[w] = "start"
    /\ spawn(w)
    /\ pc' = [pc EXCEPT ![w] = "swap"]
    /\ UNCHANGED <<cpus, lim, reported, ready, cur, wait, events, registered, clones,
                   lastRec, prevRec, stale, needs>>

\* Inner loop head (lines 55-64): the whole queue is moved into `ready`;
\* an empty snapshot leaves the inner loop for the reactor wait.
Swap(w) ==
    /\ pc[w] = "swap"
    /\ ready' = [ready EXCEPT ![w] = runnable[w]]
    /\ runnable' = [runnable EXCEPT ![w] = <<>>]
    /\ pc' = [pc EXCEPT ![w] = IF Len(ready'[w]) = 0 THEN "wait" ELSE "pop"]
    /\ last' = NoOp
    /\ UNCHANGED <<cpus, lim, reported, cur, wait, events, registered, state, home, refcount,
                   clones, nextTask, lastRec, prevRec, stale, needs>>

\* A drain loop that pops the snapshot from the back.
PollBegin_lifo(w) ==
    /\ pc[w] = "pop"
    /\ ready[w] # <<>>
    /\ LET t == ready[w][Len(ready[w])] IN
        /\ ready' = [ready EXCEPT ![w] = SubSeq(@, 1, Len(@) - 1)]
        /\ state' = [state EXCEPT ![t] = "Running"]
        /\ refcount' = increase_refcount(refcount, t)
        /\ cur' = [cur EXCEPT ![w] = t]
        /\ needs' = [needs EXCEPT ![t] = FALSE]
        /\ last' = NoOp
    /\ pc' = [pc EXCEPT ![w] = "polling"]
    /\ UNCHANGED <<cpus, lim, reported, runnable, wait, events, registered, home, clones,
                   nextTask, lastRec, prevRec, stale>>

\* pop_front, state := Running, waker(t.clone()) and entry into poll
\* (lines 66-73).
PollBegin(w) ==
    /\ pc[w] = "pop"
    /\ ready[w] # <<>>
    /\ LET t == Head(ready[w]) IN
        /\ ready' = [ready EXCEPT ![w] = Tail(@)]
        /\ state' = [state EXCEPT ![t] = "Running"]
        /\ refcount' = increase_refcount(refcount, t)
        /\ cur' = [cur EXCEPT ![w] = t]
        /\ needs' = [needs EXCEPT ![t] = FALSE]
        /\ last' = NoOp
    /\ pc' = [pc EXCEPT ![w] = "polling"]
    /\ UNCHANGED <<cpus, lim, reported, runnable, wait, events, registered, home, clones,
                   nextTask, lastRec, prevRec, stale>>

\* poll_result without the inspection of the state on Poll::Pending.
poll_result_blind(s, r) == IF r = "Pending" THEN "Pending" ELSE "Done"

\* State written when poll has returned r (lines 75-82).
poll_result(s, r) ==
    IF r = "Pending"
    THEN (IF s = "Running" THEN "Pending" ELSE s)
    ELSE "Done"

\* A drain loop that takes one snapshot only: when the snapshot is drained
\* the worker goes to the reactor wait without looking at the queue again.
PollReturn_once(w, r) ==
    /\ pc[w] = "polling"
    /\ LET t == cur[w] IN
        /\ state' = [state EXCEPT ![t] = poll_result(state[t], r)]
        /\ refcount' = drop_waker(drop_waker(refcount, t), t)
        /\ needs' = [needs EXCEPT ![t] = (r = "Pending" /\ state[t] # "Running")]
        /\ last' = Op("poll_return", w, t, NoKey,
                      IF state[t] # "Running" THEN "woken" ELSE "-", r)
    /\ cur' = [cur EXCEPT ![w] = NoTask]
    /\ pc' = [pc EXCEPT ![w] = IF ready[w] = <<>> THEN "wait" ELSE "pop"]
    /\ UNCHANGED <<cpus, lim, reported, runnable, ready, wait, events, registered, home, clones,
                   nextTask, lastRec, prevRec, stale>>

\* poll returns r: `w` is dropped at the end of the block (line 74), the
\* state is updated (lines 75-82), `t` is dropped at the end of the
\* iteration, and the `while let` tests the snapshot again (line 66).
PollReturn(w, r) ==
    /\ pc[w] = "polling"
    /\ LET t == cur[w] IN
        /\ state' = [state EXCEPT ![t] = poll_result(state[t], r)]
        /\ refcount' = drop_waker(drop_waker(refcount, t), t)
        /\ needs' = [needs EXCEPT ![t] = (r = "Pending" /\ state[t] # "Running")]
        /\ last' = Op("poll_return", w, t, NoKey,
                      IF state[t] # "Running" THEN "woken" ELSE "-", r)
    /\ cur' = [cur EXCEPT ![w] = NoTask]
    /\ pc' = [pc EXCEPT ![w] = IF ready[w] = <<>> THEN "swap" ELSE "pop"]
    /\ UNCHANGED <<cpus, lim, reported, runnable, ready, wait, events, registered, home, clones,
                   nextTask, lastRec, prevRec, stale>>

\* ---- user code inside a poll ----
\* spawn() called by the computation being polled.
UserSpawn(w) ==
    /\ pc[w] = "polling"
    /\ spawn(w)
    /\ UNCHANGED <<cpus, lim, reported, pc, ready, cur, wait, events, registered, clones,
                   lastRec, prevRec, stale, needs>>

\* cx.waker().wake_by_ref(): Helper::wake_by_ref (lines 377-380) on the
\* Task being polled.
CtxWakeByRef(w) ==
    /\ pc[w] = "polling"
    /\ Store(w, wake_by_ref(Mem(w), cur[w]))
    /\ last' = Op("wake_by_ref", w, cur[w], NoKey, "-", state[cur[w]])
    /\ UNCHANGED <<cpus, lim, reported, pc, ready, cur, wait, events, registered, home, clones,
                   nextTask, lastRec, prevRec, stale, needs>>

\* cx.waker().clone(), or a clone of a Waker kept by user code, kept by
\* user code: Helper::clone_waker (lines 366-370).  The Waker built at
\* lines 339-346 is a std::task::Waker, which is Send + Sync: a kept clone
\* can be reached by the computations of every worker.
clone_waker(w, t) ==
    /\ clones[t] < MaxClones
    /\ clones' = [clones EXCEPT ![t] = @ + 1]
    /\ refcount' = increase_refcount(refcount, t)
    /\ last' = NoOp
    /\ UNCHANGED <<cpus, lim, reported, pc, runnable, ready, cur, wait, events, registered, state,
                   home, nextTask, lastRec, prevRec, stale, needs>>

CloneWaker(w, t) ==
    /\ pc[w] = "polling"
    /\ t = cur[w] \/ clones[t] > 0
    /\ clone_waker(w, t)

\* A Waker kept by user code is invoked by value: Helper::wake (lines 372-375).
HeldWake(w, t) ==
    /\ pc[w] = "polling"
    /\ clones[t] > 0
    /\ clones' = [clones EXCEPT ![t] = @ - 1]
    /\ Store(w, wake(Mem(w), t))
    /\ last' = Op("wake", w, t, NoKey, "-", state[t])
    /\ UNCHANGED <<cpus, lim, reported, pc, ready, cur, wait, events, registered, home,
                   nextTask, lastRec, prevRec, stale, needs>>

\* A Waker kept by user code is invoked by reference (lines 377-380).
HeldWakeByRef(w, t) ==
    /\ pc[w] = "polling"
    /\ clones[t] > 0
    /\ Store(w, wake_by_ref(Mem(w), t))
    /\ last' = Op("wake_by_ref", w, t, NoKey, "-", state[t])
    /\ UNCHANGED <<cpus, lim, reported, pc, ready, cur, wait, events, registered, home, clones,
                   nextTask, lastRec, prevRec, stale, needs>>

\* A Waker kept by user code is dropped: Helper::drop_waker (lines 382-384).
HeldDrop(w, t) ==
    /\ pc[w] = "polling"
    /\ clones[t] > 0
    /\ clones' = [clones EXCEPT ![t] = @ - 1]
    /\ refcount' = drop_waker(refcount, t)
    /\ last' = NoOp
    /\ UNCHANGED <<cpus, lim, reported, pc, runnable, ready, cur, wait, events, registered, state,
                   home, nextTask, lastRec, prevRec, stale, needs>>

\* ---- Async<T> resources and the reactor registry ----
\* An OS handle is free when no worker has a resource registered under it.
FreeKey(k) == k <= lim.keys /\ \A w \in Workers : registered[w][k] = "none"

\* Registration with the thread's mio::Poll under Token(raw_fd)
\* (lines 165-174 and 255-263).
register(w, k, kind) == [registered EXCEPT ![w][k] = kind]

\* Async<TcpListener>::new (lines 155-179), called by the computation
\* being polled; the OS hands out a free descriptor k.
ListenerNew(w, k) ==
    /\ pc[w] = "polling"
    /\ FreeKey(k)
    /\ registered' = register(w, k, "listener")
    /\ last' = NoOp
    /\ UNCHANGED <<cpus, lim, reported, pc, runnable, ready, cur, wait, events, state, home,
                   refcount, clones, nextTask, lastRec, prevRec, stale, needs>>

\* Async<TcpStream>::new (lines 245-266) on a connected stream with
\* descriptor k, called directly by the computation being polled.
StreamNew(w, k) ==
    /\ pc[w] = "polling"
    /\ FreeKey(k)
    /\ registered' = register(w, k, "stream")
    /\ last' = NoOp
    /\ UNCHANGED <<cpus, lim, reported, pc, runnable, ready, cur, wait, events, state, home,
                   refcount, clones, nextTask, lastRec, prevRec, stale, needs>>

\* impl Drop for Async<T> (lines 146-153): deregister from this thread's
\* mio::Poll, then the boxed socket is closed.  Poller.wait is not touched.
deregister(w, k) == [registered EXCEPT ![w][k] = "none"]

AsyncDrop(w, k) ==
    /\ pc[w] = "polling"
    /\ registered[w][k] # "none"
    /\ registered' = deregister(w, k)
    /\ stale' = [stale EXCEPT ![w][k] = (wait[w][k] # NoTask)]
    /\ last' = NoOp
    /\ UNCHANGED <<cpus, lim, reported, pc, runnable, ready, cur, wait, events, state, home,
                   refcount, clones, nextTask, lastRec, prevRec, needs>>

\* Outcomes of one non-blocking OS call.
OsResult == {"Ok", "WouldBlock", "Err"}

\* The match with every error treated as would-block.
io_result_err(os) == IF os = "Ok" THEN "Ready" ELSE "Pending"

\* A match whose would-block arm also catches every other error.
io_records_any(os) == os # "Ok"

\* The match on the OS result (lines 186-193, 217-223, 235-241, 277-289,
\* 301-307): which outcomes store the Waker, and what poll returns.
io_records(os) == os = "WouldBlock"
io_result(os) == IF os = "WouldBlock" THEN "Pending" ELSE "Ready"

\* What the attempt hands to its caller inside Poll::Ready: poll_next wraps
\* either outcome in Some (lines 187, 192), read and write pass the
\* io::Result through (lines 222, 240, 283-287, 306).
io_item(op, os) ==
    CASE os = "WouldBlock" -> "-"
      [] op = "accept" -> IF os = "Ok" THEN "Some(Ok)" ELSE "Some(Err)"
      [] OTHER -> os

\* An insert that keeps a Waker already stored under the key.
wait_insert_keep(wt, k, t) == IF wt[k] = NoTask THEN [wt EXCEPT ![k] = t] ELSE wt

\* wait.insert(token, cx.waker().clone()) (lines 189, 219, 237, 280, 303):
\* the current Waker is cloned and stored; HashMap::insert returns the
\* Waker it replaced, which is dropped.
wait_insert(wt, k, t) == [wt EXCEPT ![k] = t]

insert_refcount(rc, old, t) ==
    LET rc1 == increase_refcount(rc, t)
    IN  IF old = NoTask THEN rc1 ELSE drop_waker(rc1, old)

\* One attempt of accept/read/write on the resource with key k by the
\* Task being polled, the OS call ending with `os`.
io_attempt(w, k, op, os) ==
    /\ IF io_records(os)
       THEN /\ wait' = [wait EXCEPT ![w] = wait_insert(wait[w], k, cur[w])]
            /\ refcount' = insert_refcount(refcount, wait[w][k], cur[w])
            /\ lastRec' = [lastRec EXCEPT ![w][k] = cur[w]]
            /\ prevRec' = [prevRec EXCEPT ![w][k] =
                              IF wait[w][k] = cur[w] THEN @ ELSE wait[w][k]]
            /\ stale' = [stale EXCEPT ![w][k] = FALSE]
       ELSE UNCHANGED <<wait, refcount, lastRec, prevRec, stale>>
    /\ last' = [Op(op, w, cur[w], k, os, io_result(os)) EXCEPT !.item = io_item(op, os)]
    /\ UNCHANGED <<cpus, lim, reported, pc, runnable, ready, cur, events, state, home, clones,
                   nextTask, needs>>

\* Stream for Async<TcpListener> :: poll_next (lines 184-194), also reached
\* through Accept::poll_accept (lines 201-206).  A successful accept wraps
\* the new socket, with descriptor k2, by Async<TcpStream>::new.
poll_next(w, k, os, k2) ==
    /\ pc[w] = "polling"
    /\ registered[w][k] = "listener"
    /\ IF os = "Ok"
       THEN /\ FreeKey(k2)
            /\ registered' = register(w, k2, "stream")
       ELSE /\ k2 = k
            /\ UNCHANGED registered
    /\ io_attempt(w, k, "accept", os)

\* ReadFuture::poll (lines 214-224) and AsyncRead::poll_read (lines 269-291).
poll_read(w, k, os) ==
    /\ pc[w] = "polling"
    /\ registered[w][k] = "stream"
    /\ UNCHANGED registered
    /\ io_attempt(w, k, "read", os)

\* WriteFuture::poll (lines 232-242) and AsyncWrite::poll_write (lines 295-308).
poll_write(w, k, os) ==
    /\ pc[w] = "polling"
    /\ registered[w][k] = "stream"
    /\ UNCHANGED registered
    /\ io_attempt(w, k, "write", os)

\* ---- reactor wait (lines 86-94) ----
\* Event lists mio can report: at least one event, at most lim.events, one
\* per registered handle.
RECURSIVE SeqsOver(_, _)
SeqsOver(S, n) ==
    IF n = 0 THEN {<<>>}
    ELSE LET shorter == SeqsOver(S, n - 1)
         IN  shorter \cup {Append(s, k) : s \in {x \in shorter : Len(x) = n - 1},
                                          k \in S}
Distinct(s) == \A i, j \in 1..Len(s) : i # j => s[i] # s[j]
EventLists(w) ==
    {s \in SeqsOver({k \in Keys : registered[w][k] # "none"}, lim.events) :
        Len(s) > 0 /\ Distinct(s)}

\* p.poll.poll(&mut events, None) returns (line 88).
WaitReturn(w) ==
    /\ pc[w] = "wait"
    /\ \E evs \in EventLists(w) :
          /\ events' = [events EXCEPT ![w] = evs]
          /\ reported' = [reported EXCEPT ![w] = evs]
    /\ pc' = [pc EXCEPT ![w] = "events"]
    /\ last' = NoOp
    /\ UNCHANGED <<cpus, lim, runnable, ready, cur, wait, registered, state, home,
                   refcount, clones, nextTask, lastRec, prevRec, stale, needs>>

\* p.wait.remove(&e.token()) (line 90).
wait_remove(wt, k) == [wt EXCEPT ![k] = NoTask]

\* One iteration of `for e in events` (lines 89-93):
\* the Waker stored under the event's token, if any,
\* is removed and invoked by value.
event_iteration(w) ==
    LET e == Head(events[w])
        t == wait[w][e]
    IN  /\ wait' = [wait EXCEPT ![w] = wait_remove(wait[w], e)]
        /\ IF t # NoTask
           THEN /\ Store(w, wake(Mem(w), t))
                /\ lastRec' = [lastRec EXCEPT ![w][e] = NoTask]
                /\ prevRec' = [prevRec EXCEPT ![w][e] = NoTask]
                /\ stale' = [stale EXCEPT ![w][e] = FALSE]
           ELSE UNCHANGED <<state, runnable, refcount, lastRec, prevRec, stale>>
        /\ events' = [events EXCEPT ![w] = Tail(@)]

EventStep(w) ==
    /\ pc[w] = "events"
    /\ event_iteration(w)
    /\ LET e == Head(events[w])
           t == wait[w][e]
       IN  last' = Op("event", w, t, e,
                      IF prevRec[w][e] # NoTask THEN "replaced" ELSE "-",
                      IF t # NoTask THEN state[t] ELSE "-")
    /\ reported' = [reported EXCEPT ![w] = IF Len(events[w]) = 1 THEN <<>> ELSE @]
    /\ pc' = [pc EXCEPT ![w] = IF Len(events[w]) = 1 THEN "swap" ELSE "events"]
    /\ UNCHANGED <<cpus, lim, ready, cur, registered, home, clones, nextTask, needs>>

\* The same iteration when w.wake() (line 91) releases the last reference
\* of a Task whose future still owns an Async resource h: the Task and its
\* future are freed inside POLLER.with, Drop for Async<T> (lines 146-153)
\* calls poller.borrow_mut() while `p` (line 87) holds the borrow, and the
\* thread panics before registry().deregister is reached.
EventPanic(w, h) ==
    /\ pc[w] = "events"
    /\ registered[w][h] # "none"
    /\ wait[w][Head(events[w])] # NoTask
    /\ wake(Mem(w), wait[w][Head(events[w])]).refcount[wait[w][Head(events[w])]] = 0
    /\ event_iteration(w)
    /\ LET e == Head(events[w])
           t == wait[w][e]
       IN  last' = [Op("event", w, t, e,
                       IF prevRec[w][e] # NoTask THEN "replaced" ELSE "-", state[t])
                       EXCEPT !.item = "panic", !.res = h]
    /\ pc' = [pc EXCEPT ![w] = "panicked"]
    /\ UNCHANGED <<cpus, lim, reported, ready, cur, registered, home, clones,
                   nextTask, needs>>

\* ---- specification ----
WorkerStep(w) ==
    \/ ThreadStart(w)
    \/ Swap(w)
    \/ PollBegin(w)
    \/ \E r \in {"Pending", "Ready"} : PollReturn(w, r)
    \/ UserSpawn(w)
    \/ CtxWakeByRef(w)
    \/ \E t \in Tasks : CloneWaker(w, t)
    \/ \E t \in Tasks : HeldWake(w, t)
    \/ \E t \in Tasks : HeldWakeByRef(w, t)
    \/ \E t \in Tasks : HeldDrop(w, t)
    \/ \E k \in Keys : ListenerNew(w, k)
    \/ \E k \in Keys : StreamNew(w, k)
    \/ \E k \in Keys : AsyncDrop(w, k)
    \/ \E k, k2 \in Keys, os \in OsResult : poll_next(w, k, os, k2)
    \/ \E k \in Keys, os \in OsResult : poll_read(w, k, os)
    \/ \E k \in Keys, os \in OsResult : poll_write(w, k, os)
    \/ WaitReturn(w)
    \/ EventStep(w)
    \/ \E h \in Keys : EventPanic(w, h)

Next == \E w \in Workers : WorkerStep(w)

Spec == Init /\ [][Next]_vars
SpecMW == InitMW /\ [][Next]_vars
SpecFifo == InitFifo /\ [][Next]_vars

\* The worker loop of a live thread keeps running and every poll call
\* returns: weak fairness of the loop's own steps.  Nothing obliges the OS
\* to report an event or a computation to take any particular step.
LoopFair ==
    \A w \in Workers :
        /\ WF_vars(Swap(w))
        /\ WF_vars(PollBegin(w))
        /\ WF_vars(\E r \in {"Pending", "Ready"} : PollReturn(w, r))
        /\ WF_vars(EventStep(w) \/ \E h \in Keys : EventPanic(w, h))
SpecFair == Spec /\ LoopFair

\* ---- properties ----
WakeOps == {"wake", "wake_by_ref", "event"}
IoOps == {"accept", "read", "write"}
Queued(t) == \E w \in Workers : InSeq(t, runnable[w]) \/ InSeq(t, ready[w])
\* The step taken is a run of the wake protocol on Task t.
WakeStep(t) == last'.op \in WakeOps /\ last'.task = t
\* The step taken is worker w processing an event for key k.
EventOn(w, k) == pc[w] = "events" /\ events'[w] # events[w] /\ Head(events[w]) = k

\* C1: in every reachable state each Task occurs at most once in the union
\* of a worker's Runnable Queue and the snapshot being drained.
C1_NoDuplicateEntry ==
    \A w \in Workers, t \in Tasks : Count(t, runnable[w]) + Count(t, ready[w]) <= 1

\* A wake by value has just run on a Task that was Ready and sits in the
\* Runnable Queue.
C1_Witness ==
    /\ last.op = "wake"
    /\ last.ret = "Ready"
    /\ InSeq(last.task, runnable[last.w])

\* C2 as stated: every state change of a Task is Ready->Running,
\* Running->Pending, Pending->Ready or Running->Done (creation aside).
LegalOriginal ==
    {<<"None", "Ready">>, <<"Ready", "Running">>, <<"Running", "Pending">>,
     <<"Pending", "Ready">>, <<"Running", "Done">>}
LegalAmended == LegalOriginal \cup {<<"Running", "Ready">>, <<"Ready", "Done">>}
C3_DoneAbsorbing ==
    [][\A t \in Tasks : state[t] = "Done" =>
          /\ state'[t] = "Done"
          /\ ~Queued(t)'
          /\ \A w \in Workers : cur'[w] # t]_vars

\* The reactor has just invoked the stored Waker of a Done Task.
C3_Witness ==
    /\ last.op = "event"
    /\ last.task # NoTask
    /\ last.ret = "Done"
    /\ state[last.task] = "Done"

\* C4: a run of the wake protocol on a Task that is Ready or Done changes
\* no Task state, no Runnable Queue and no snapshot; and in every reachable
\* state two wakes in a row leave the states and the queue as one wake does.
C4_Step ==
    \A t \in Tasks : (WakeStep(t) /\ state[t] \in {"Ready", "Done"}) =>
        (state' = state /\ runnable' = runnable /\ ready' = ready)
C4_Twice ==
    \A t \in Tasks : state[t] # "None" =>
        LET m == Mem(home[t])
            once == wake_by_ref(m, t)
            twice == wake_by_ref(once, t)
        IN  twice.state = once.state /\ twice.runnable = once.runnable
C4_WakeNoOp == [][C4_Step]_vars /\ []C4_Twice

\* wake_by_ref has just run on a Task that is waiting in the snapshot.
C4_Witness ==
    /\ last.op = "wake_by_ref"
    /\ last.ret = "Ready"
    /\ InSeq(last.task, ready[last.w])
    /\ state[last.task] = "Ready"

\* C5: a wake on a Pending Task sets it Ready and appends exactly one entry
\* for it at the tail of the worker's Runnable Queue; and a Task that
\* exists gains a Runnable Queue entry only by such a wake.
C5_Step ==
    \A t \in Tasks :
        /\ (WakeStep(t) /\ state[t] = "Pending") =>
              /\ state'[t] = "Ready"
              /\ runnable'[last'.w] = Append(runnable[last'.w], t)
              /\ Count(t, runnable'[last'.w]) = 1
        /\ \A w \in Workers :
              (state[t] # "None" /\ Count(t, runnable'[w]) > Count(t, runnable[w])) =>
                  (WakeStep(t) /\ last'.w = w /\ state[t] = "Pending")
C5_WakeFromPending == [][C5_Step]_vars

\* The reactor's wake has just re-enqueued a Task at the tail of the queue.
C5_Witness ==
    /\ last.op = "event"
    /\ last.task # NoTask
    /\ last.ret = "Pending"
    /\ runnable[last.w] # <<>>
    /\ runnable[last.w][Len(runnable[last.w])] = last.task
    /\ state[last.task] = "Ready"

\* C6: a Task woken during its own poll, whose poll then returned
\* not-ready, is in the next snapshot the drain loop takes (it is polled on
\* the next drain pass).
C6_ServicedNextPass ==
    [][\A w \in Workers : (pc[w] = "swap" /\ pc'[w] # "swap") =>
          \A t \in Tasks : (home[t] = w /\ needs[t]) => InSeq(t, ready'[w])]_vars

\* C7: a live Task whose state is Ready is in its worker's Runnable Queue
\* or in the snapshot being drained.
C7_ReadyIsQueued ==
    \A t \in Tasks : (state[t] = "Ready" /\ refcount[t] > 0) => Queued(t)

\* C8: recording a Waker under a key stores it in place of the one held
\* (which is released); an event for a key removes the stored Waker and
\* wakes the Task that recorded most recently, and no other Task's state
\* or queue entries change by that event.
C8_Step ==
    \A w \in Workers, k \in Keys :
        /\ (last'.op \in IoOps /\ last'.ret = "Pending" /\ last'.w = w /\ last'.key = k) =>
              /\ wait'[w][k] = cur[w]
              /\ \A o \in Tasks : (o = wait[w][k] /\ o # cur[w]) =>
                    refcount'[o] = refcount[o] - 1
        /\ EventOn(w, k) =>
              /\ wait'[w][k] = NoTask
              /\ lastRec[w][k] # NoTask =>
                    (last'.op = "event" /\ last'.task = lastRec[w][k])
              /\ \A t \in Tasks \ {lastRec[w][k]} :
                    /\ state'[t] = state[t]
                    /\ Count(t, runnable'[w]) = Count(t, runnable[w])
C8_LatestWakerOnly == [][C8_Step]_vars

\* An event has just woken the latest registrant of a key under which the
\* Waker of another Task had been replaced.
C8_Witness ==
    /\ last.op = "event"
    /\ last.os = "replaced"
    /\ last.task # NoTask
    /\ last.ret = "Pending"
    /\ InSeq(last.task, runnable[last.w])

\* C9: no event invokes a Waker that was recorded for a resource dropped
\* since.
C9_NoStaleWake ==
    [][\A w \in Workers, k \in Keys :
          (EventOn(w, k) /\ wait[w][k] # NoTask) => ~stale[w][k]]_vars

\* C10: an attempt returns not-ready only when the OS call reported
\* would-block, and then the registry maps the key to a fresh clone of the
\* Waker of the Task being polled; a successful attempt returns ready and
\* leaves the registry as it was.
C10_Step ==
    last'.op \in IoOps =>
        /\ last'.ret = "Pending" =>
              /\ last'.os = "WouldBlock"
              /\ last'.task = cur[last'.w]
              /\ wait'[last'.w][last'.key] = cur[last'.w]
              /\ wait[last'.w][last'.key] # cur[last'.w] =>
                    refcount'[cur[last'.w]] = refcount[cur[last'.w]] + 1
        /\ last'.os = "Ok" => (last'.ret = "Ready" /\ wait' = wait)
C10_NotReadyMeansRecorded == [][C10_Step]_vars

\* A read has just returned not-ready and the Waker of the Task being
\* polled is stored under the stream's key.
C10_Witness ==
    /\ last.op = "read"
    /\ last.ret = "Pending"
    /\ wait[last.w][last.key] = last.task
    /\ cur[last.w] = last.task

\* ---- C11: OS errors other than would-block ----

\* C11: when the OS call under accept, read or write fails with an error
\* other than would-block, the attempt returns Ready with that error (for
\* accept: as the item Some(Err), never the end of the sequence), records no
\* Waker, changes no Task state or queue, leaves the worker inside the same
\* poll with the resource still registered, and makes no further OS call:
\* the step is the single attempt.
C11_Step ==
    (last' # last /\ last'.op \in IoOps /\ last'.os = "Err") =>
        /\ last'.ret = "Ready"
        /\ last'.item = (IF last'.op = "accept" THEN "Some(Err)" ELSE "Err")
        /\ wait' = wait
        /\ refcount' = refcount
        /\ state' = state
        /\ runnable' = runnable
        /\ pc' = pc /\ cur' = cur
        /\ registered' = registered
        /\ registered[last'.w][last'.key] # "none"
        /\ state[last'.task] \in {"Running", "Ready"}

C11_ErrorReturned == [][C11_Step]_vars

C11_Witness ==
    /\ last.op = "accept" /\ last.os = "Err" /\ last.item = "Some(Err)"
    /\ wait[last.w][last.key] = NoTask
    /\ registered[last.w][last.key] = "listener"

\* ---- C12: the reference count ----

\* Live holders of Task t: entries of its worker's Runnable Queue and
\* snapshot, the scheduler's handle and the Context's Waker while it is
\* polled, Wakers kept by user code, Wakers stored in a registry.
RECURSIVE SumTo(_, _)
SumTo(f, n) == IF n = 0 THEN 0 ELSE f[n] + SumTo(f, n - 1)

Holders(t) ==
    LET perWorker == [w \in Workers |->
            Count(t, runnable[w]) + Count(t, ready[w])
            + (IF cur[w] = t THEN 2 ELSE 0)
            + Cardinality({k \in Keys : wait[w][k] = t})]
    IN  SumTo(perWorker, MaxCpus) + clones[t]

\* References of t other than entries of worker w's Runnable Queue, in a
\* memory of that worker.
OffQueue(rc, q, t) == rc[t] - Count(t, q)

C12_Step ==
    /\ \A t \in Tasks :
          \* cloning a Waker: exactly one more, no state, no queue touched
          /\ (clones'[t] = clones[t] + 1) =>
                /\ refcount'[t] = refcount[t] + 1
                /\ state' = state /\ runnable' = runnable /\ ready' = ready
          \* dropping a Waker: exactly one less
          /\ (clones'[t] = clones[t] - 1 /\ last'.op # "wake") =>
                /\ refcount'[t] = refcount[t] - 1
                /\ state' = state /\ runnable' = runnable
    \* wake(self) consumes the Waker it is called on
    /\ (last' # last /\ last'.op = "wake") =>
          LET t == last'.task
              w == last'.w
          IN  /\ clones'[t] = clones[t] - 1
              /\ OffQueue(refcount', runnable'[w], t)
                    = OffQueue(refcount, runnable[w], t) - 1
    \* wake_by_ref consumes none
    /\ (last' # last /\ last'.op = "wake_by_ref") =>
          LET t == last'.task
              w == last'.w
          IN  /\ clones' = clones
              /\ OffQueue(refcount', runnable'[w], t)
                    = OffQueue(refcount, runnable[w], t)

\* C12: the reference count of every Task equals the number of its live
\* holders in every reachable state (so it is zero, the Task destroyed,
\* exactly when no holder remains); a clone adds one and touches neither
\* state nor queue, a drop removes one, wake by value consumes one
\* reference, wake_by_ref none.
C12_RefcountIsHolders ==
    /\ [](\A t \in Tasks : refcount[t] = Holders(t))
    /\ [][C12_Step]_vars

\* A wake by value has consumed the last reference of a finished Task.
C12_Witness ==
    /\ last.op = "wake"
    /\ state[last.task] = "Done"
    /\ refcount[last.task] = 0

\* ---- C13: workers are independent ----

\* Worker w holds Task t in its Runnable Queue or snapshot, or is polling it.
Serves(w, t) == InSeq(t, runnable[w]) \/ InSeq(t, ready[w]) \/ cur[w] = t

\* The thread-local data of worker w.
Local(w) == <<pc[w], runnable[w], ready[w], cur[w], wait[w], events[w], registered[w]>>

C13_Step ==
    \* one worker acts; the thread-local data of every other is untouched
    /\ \E a \in Workers : \A w \in Workers \ {a} : Local(w)' = Local(w)
    \* spawn: a Ready Task at the tail of the calling worker's queue
    /\ nextTask' # nextTask =>
          \E a \in Workers :
             /\ pc[a] \in {"start", "polling"}
             /\ runnable'[a] = Append(runnable[a], nextTask)
             /\ state'[nextTask] = "Ready"
             /\ home'[nextTask] = a

\* C13: with several workers in any interleaving, spawn puts a Ready Task
\* at the tail of the calling worker's Runnable Queue, a Task is enqueued
\* and polled only by the worker that spawned it, and a step of one worker
\* writes no other worker's queue or registry.
C13_ThreadConfined ==
    /\ [](\A w \in Workers, t \in Tasks : Serves(w, t) => home[t] = w)
    /\ [][C13_Step]_vars

\* ---- C14: lifecycle of an Async resource ----

C14_Step ==
    /\ \A w \in Workers, k \in Keys :
          \* Registered at construction, Deregistered at destruction, and
          \* nothing else: no registration over a live one, no
          \* deregistration of what is not registered
          /\ registered'[w][k] # registered[w][k] =>
                registered[w][k] = "none" \/ registered'[w][k] = "none"
          \* no accept, read or write on a deregistered resource
          /\ (last' # last /\ last'.op \in IoOps /\ last'.w = w /\ last'.key = k) =>
                registered[w][k] # "none"
    \* a resource destroyed while its Drop runs leaves no registration behind
    /\ (last' # last /\ last'.res # NoKey) =>
          registered'[last'.w][last'.res] = "none"

\* C14: every Async resource is registered with its worker's reactor once,
\* at construction, and deregistered once, at destruction; no
\* deregistration happens twice or on an unregistered resource, and no
\* accept, read or write is attempted after deregistration.
C14_RegisteredThenDeregistered == [][C14_Step]_vars

\* ---- C15: a wake during the Task's own poll ----

C15_Step ==
    /\ \A t \in Tasks :
          (last' # last /\ WakeStep(t) /\ state[t] = "Running") =>
              /\ state'[t] = "Ready"
              /\ \A w \in Workers : runnable'[w] = runnable[w] /\ ready'[w] = ready[w]
    /\ (last' # last /\ last'.op = "poll_return" /\ last'.ret = "Pending") =>
          LET t == last'.task IN
          /\ state[t] = "Running" => state'[t] = "Pending"
          /\ state[t] # "Running" => state'[t] = state[t]
          /\ runnable' = runnable /\ ready' = ready

C16_BlocksOnlyWhenDrained ==
    /\ [](\A w \in Workers :
            pc[w] = "wait" =>
               /\ runnable[w] = <<>> /\ ready[w] = <<>> /\ cur[w] = NoTask
               /\ \A t \in Tasks : home[t] = w => state[t] # "Running")
    /\ [][\A w \in Workers :
            (pc'[w] = "wait" /\ pc[w] # "wait") =>
                pc[w] = "swap" /\ runnable[w] = <<>>]_vars

\* The worker blocks after a drain during which a second Task was spawned:
\* that Task has been polled.
C16_Witness ==
    /\ pc[1] = "wait"
    /\ nextTask > 2
    /\ state[2] \in {"Pending", "Done"}

\* ---- C17: a reported event leads to a poll ----

\* Worker w has been handed an event for key k, under which the registry
\* holds the Waker that Pending Task t recorded last (not overwritten, the
\* resource not dropped since).
Reported(w, k, t) ==
    /\ pc[w] = "events" /\ InSeq(k, events[w])
    /\ state[t] = "Pending"
    /\ wait[w][k] = t /\ lastRec[w][k] = t /\ ~stale[w][k]

\* C17: if a Task is Pending and the registry holds its Waker under key k,
\* then once the reactor reports an event for k the Task is eventually
\* polled again (it has become Ready and entered the queue on the way),
\* given that polls return and the worker loop is scheduled fairly.
C17_ReportedLeadsToPoll ==
    \A w \in Workers, k \in Keys, t \in Tasks :
        Reported(w, k, t) ~> (cur[w] = t)

\* ---- C18: one reactor wait ----

C18_Step ==
    \A w \in Workers :
       /\ (pc[w] = "events" /\ events'[w] # events[w]) =>
             LET k == Head(events[w])
                 t == wait[w][k]
             IN  \* in the order reported: the first unprocessed event
                 /\ events'[w] = Tail(events[w])
                 /\ last'.op = "event" /\ last'.key = k /\ last'.task = t
                 \* its Waker is removed, no other entry is touched
                 /\ wait'[w] = [wait[w] EXCEPT ![k] = NoTask]
                 \* and invoked once, by value
                 /\ t # NoTask =>
                       /\ state' = wake(Mem(w), t).state
                       /\ runnable'[w] = wake(Mem(w), t).runnable
                       /\ refcount' = wake(Mem(w), t).refcount
                 \* no Waker: nothing changes
                 /\ t = NoTask =>
                       /\ state' = state /\ runnable' = runnable /\ ready' = ready
                       /\ refcount' = refcount /\ wait' = wait
       \* when the worker leaves the event loop every reported key has
       \* been processed
       /\ (pc[w] = "events" /\ pc'[w] # "events") =>
             /\ events'[w] = <<>>
             /\ \A k \in Keys : InSeq(k, reported[w]) => wait'[w][k] = NoTask

\* C18: one reactor wait processes the reported events in the order
\* reported; for each it removes the Waker stored under the event's key and
\* invokes it once, so that after the wait no reported key has a stored
\* Waker; an event whose key has no Waker changes no Task state, no queue
\* and no registry entry.
C18_EveryEventProcessed == [][C18_Step]_vars

\* ---- C19: FIFO service ----

\* The queue swap of worker w: the whole Runnable Queue, in its order,
\* becomes the snapshot, and only when the previous snapshot is drained.
Swapped(w) ==
    /\ ready[w] = <<>> /\ cur[w] = NoTask
    /\ ready'[w] = runnable[w] /\ runnable'[w] = <<>>

C19_Step ==
    \A w \in Workers :
       \* a poll starts on the head of the snapshot, which leaves it
       /\ (cur'[w] # cur[w] /\ cur'[w] # NoTask) =>
             /\ ready[w] # <<>>
             /\ cur'[w] = Head(ready[w])
             /\ ready'[w] = Tail(ready[w])
       \* the snapshot changes in no other way: nothing is added to it
       \* while it is drained
       /\ ready'[w] # ready[w] =>
             \/ /\ ready[w] # <<>>
                /\ ready'[w] = Tail(ready[w])
                /\ cur'[w] = Head(ready[w])
             \/ Swapped(w)
       \* the Runnable Queue grows at its tail and shrinks only by a swap
       /\ runnable'[w] # runnable[w] =>
             \/ \E t \in Tasks : runnable'[w] = Append(runnable[w], t)
             \/ Swapped(w)

\* C19: within one worker Tasks are polled in the order of their
\* enqueueing: the snapshot is the queue in its order, its Tasks are polled
\* from the head, each once, and a Task spawned or re-enqueued while a
\* snapshot is drained goes to the tail of the Runnable Queue, which is
\* taken only after the snapshot is empty.
C19_Fifo ==
    /\ [](\A w \in Workers, t \in Tasks : Count(t, ready[w]) <= 1)
    /\ [][C19_Step]_vars

\* A Task has been enqueued during the poll of another while a third is
\* still waiting in the snapshot.
C19_Witness ==
    \E w \in Workers :
        /\ cur[w] # NoTask
        /\ ready[w] # <<>>
        /\ runnable[w] # <<>>

\* ---- C20: only Ready Tasks are queued ----

\* C20: every entry of a Runnable Queue or of a snapshot still to be
\* drained is a Task in state Ready (a Pending, Running or Done Task is in
\* no queue), and a poll starts only on a Task that was Ready when it was
\* taken from the snapshot.
C20_QueuedIsReady ==
    /\ [](\A t \in Tasks : Queued(t) => state[t] = "Ready")
    /\ [][\A w \in Workers :
            (cur'[w] # cur[w] /\ cur'[w] # NoTask) => state[cur'[w]] = "Ready"]_vars

\* A snapshot of two Tasks, both woken from Pending, is about to be drained.
C20_Witness ==
    \E w \in Workers :
        /\ pc[w] = "pop"
        /\ Len(ready[w]) = 2
        /\ cur[w] = NoTask

====
